---- MODULE Spec2Model ----
(***************************************************************************)
(* A model of examples/directml/llm/decoder_model.py: the construction of  *)
(* a DecoderModel, its set_use_cache mode switch, and its forward pass     *)
(* (token embedding, stacked transformer layers with a per-layer key/value *)
(* cache, masking, grouped-query broadcasting); and of the driver script   *)
(* examples/directml/llm/llm.py: its optimize step and its dispatch.       *)
(*                                                                         *)
(* Tensors are modelled by their shape and by symbolic contents: a float   *)
(* is never computed, a vector is the term it was computed from.  The      *)
(* batch axis and the head_dim axis are dropped (every operation of the    *)
(* forward pass is the same on each batch row, and none indexes head_dim). *)
(***************************************************************************)
EXTENDS Integers, Sequences, FiniteSets, TLC

(* ---------------------------------------------------------------- bounds *)
\* the largest n_layers a model is constructed with
MaxLayers == 2
\* the longest cache (cached positions plus new ones) a forward call builds
MaxTotal == 3
\* the most key/value heads, and the largest repeat factor, of the
\* grouped-query broadcasting runs
MaxKVHeads == 3
MaxRep == 3
\* the invocations of the driver script one run of the model follows
MaxRuns == 3

(* ------------------------------------------------------------- constants *)
\* the bias masked_fill writes where a mask says "drop" (-MaskFill)
MaskFill == 10000
\* the epsilon Model.__init__ passes to the final normalization, 1e-5, as
\* its negated decimal exponent
FinalNormEps == 5

VARIABLES
    model,    \* the DecoderModel instance, or how its construction ended
    forward,  \* what the instance's attribute `forward` is bound to
    cache,    \* the caller's cache: per layer, a "key" and a "value" tensor
    ret,      \* what the last call of forward returned (<<>>: nothing)
    call,     \* a record of the last call of forward
    lastSet,  \* the argument of the most recent set_use_cache call
    fed,      \* the positions supplied by the calls whose cache was threaded forward
    stream,   \* the tokens threaded so far, while they were fed one at a time
    initLen,  \* the cached positions the caller's cache started with
    kvIn,     \* grouped-query run: the key/value tensor and the head counts
    kvOut,    \* grouped-query run: the tensor attention reads
    argv,     \* driver: the parsed arguments of the current invocation
    pc,       \* driver: the line the current invocation is at
    fs,       \* driver: models/optimized, per model name its directory
    trace,    \* driver: what the current invocation has done so far, in order
    runs      \* driver: the invocations made so far

\* the variables of the driver script
driverVars == <<argv, pc, fs, trace, runs>>

\* the variables of the decoder model and of its caller
modelVars == <<model, forward, cache, ret, call, lastSet, fed, stream, initLen, kvIn, kvOut>>

vars == <<model, forward, cache, ret, call, lastSet, fed, stream, initLen, kvIn, kvOut,
          argv, pc, fs, trace, runs>>

(* ----------------------------------------------------------- small helpers *)
Max(S) == CHOOSE m \in S : \A n \in S : n <= m

Min2(a, b) == IF a <= b THEN a ELSE b

\* all sequences over S of length exactly n
SeqsOfLen(S, n) == [1..n -> S]

(***************************************************************************)
(* Construction.  A constructor either yields an object or raises: the     *)
(* result is [ok |-> TRUE, v |-> object] or [ok |-> FALSE, exc |-> name].  *)
(***************************************************************************)
Raise(e) == [ok |-> FALSE, exc |-> e]

Return(v) == [ok |-> TRUE, v |-> v]

\* RMSNorm(dim, eps) and LayerNorm(dim, eps): the instance keeps eps
RMSNorm(eps) == [kind |-> "RMSNorm", eps |-> eps]

LayerNorm(eps) == [kind |-> "LayerNorm", eps |-> eps]

\* {"layer_norm": LayerNorm(hidden_size, eps), "rms": RMSNorm(hidden_size, eps)}[normalization_type]:
\* both instances are built, then the dict is indexed; an unknown key raises KeyError
NormLookup(normalization_type, eps) ==
    LET table == [layer_norm |-> LayerNorm(eps), rms |-> RMSNorm(eps)]
    IN IF normalization_type \in DOMAIN table
       THEN Return(table[normalization_type])
       ELSE Raise("KeyError")

\* SelfAttention.__init__: the head counts are kept, scale_type picks the
\* score scale or raises ValueError
SelfAttentionInit(num_heads, num_key_value_heads, scale_type) ==
    IF scale_type = "HeadDim"
    THEN Return([num_heads |-> num_heads,
                 num_key_value_heads |-> num_key_value_heads,
                 scale |-> "head_dim"])
    ELSE IF scale_type = "SquareRootHeadDim"
    THEN Return([num_heads |-> num_heads,
                 num_key_value_heads |-> num_key_value_heads,
                 scale |-> "sqrt(head_dim)"])
    ELSE Raise("ValueError")

\* TransformerLayer.__init__: the two normalizations, then the attention block
TransformerLayerInit(a) ==
    LET n1 == NormLookup(a.normalization_type, a.epsilon)
        n2 == NormLookup(a.normalization_type, a.epsilon)
        sa == SelfAttentionInit(a.num_heads, a.num_key_value_heads, a.scale_type)
    IN IF ~n1.ok THEN n1
       ELSE IF ~n2.ok THEN n2
       ELSE IF ~sa.ok THEN sa
       ELSE Return([input_layernorm |-> n1.v,
                    post_attention_layernorm |-> n2.v,
                    self_attn |-> sa.v])

\* for _ in range(n_layers): layers.append(TransformerLayer(...));
\* `done` holds the layers built so far, the first failing constructor raises
RECURSIVE BuildLayers(_, _, _)
BuildLayers(a, n, done) ==
    IF Len(done) >= n THEN Return(done)
    ELSE LET layer == TransformerLayerInit(a)
         IN IF ~layer.ok THEN layer
            ELSE BuildLayers(a, n, Append(done, layer.v))

\* Model.__init__: the final normalization (with its own eps), then the layers
ModelInit(a) ==
    LET norm == NormLookup(a.normalization_type, FinalNormEps)
        layers == BuildLayers(a, a.n_layers, <<>>)
    IN IF ~norm.ok THEN norm
       ELSE IF ~layers.ok THEN layers
       ELSE Return([norm |-> norm.v, layers |-> layers.v])

\* DecoderModel.__init__: self.model = Model(...), then the lm_head
DecoderModelInit(a) ==
    LET m == ModelInit(a)
    IN IF ~m.ok THEN m ELSE Return([model |-> m.v, lm_head |-> "Linear"])

(***************************************************************************)
(* Tensors.  A cache tensor of shape (batch, num_key_value_heads, length,  *)
(* head_dim) is [id |-> which tensor object it is, data |-> per head, the  *)
(* sequence of its entries along the sequence axis].  A hidden state of    *)
(* shape (batch, seq_len, hidden_size) is the sequence of its rows; a row  *)
(* is the term [tok |-> the token it embeds, att |-> per layer passed, the *)
(* attention output that was added to it].                                 *)
(***************************************************************************)
\* self.embed_tokens(tokens)
EmbedTokens(tokens) == [r \in 1..Len(tokens) |-> [tok |-> tokens[r], att |-> <<>>]]

\* a key vector: k_proj of a (normalized) hidden row, rotated by a position id
KeyEntry(layer_idx, g, xrow, pos) ==
    [layer |-> layer_idx, head |-> g, x |-> xrow, pos |-> pos]

\* a value vector: v_proj of a (normalized) hidden row
ValueEntry(layer_idx, g, xrow) == [layer |-> layer_idx, head |-> g, x |-> xrow]

\* tensor.clone().detach(): a new tensor object with the same contents
Clone(t, id) == [id |-> id, data |-> t.data]

\* a cat that returns the new entries alone, the cached ones lost
CatNewOnly(a, bdata, id) == [id |-> id, data |-> [g \in 1..Len(a.data) |-> bdata[g]]]

\* torch.cat((a, b), dim=2): a new tensor object, b's entries after a's
Cat(a, bdata, id) ==
    [id |-> id, data |-> [g \in 1..Len(a.data) |-> a.data[g] \o bdata[g]]]

\* the sequence length of a cache tensor (the size of its axis 2)
SeqLen(t) == Len(t.data[1])

\* the tensor objects a forward call creates get ids after the caller's 2*n
FreshId(n_layers, layer_idx, k) == 2 * n_layers + 4 * (layer_idx - 1) + k

(***************************************************************************)
(* ApplyMask.forward.  Matrices are sequences of rows.                     *)
(***************************************************************************)
\* attn_mask[:, None, None, :].expand(-1, 1, seq_len, -1)
ExpandMask(attn_mask, seq_len) == [r \in 1..seq_len |-> attn_mask]

\* 1.0 - m
Invert(mat) ==
    [r \in 1..Len(mat) |-> [c \in 1..Len(mat[r]) |-> 1 - mat[r][c]]]

\* m.masked_fill(m.to(torch.bool), -10000.0)
MaskedFill(mat) ==
    [r \in 1..Len(mat) |->
        [c \in 1..Len(mat[r]) |-> IF mat[r][c] # 0 THEN 0 - MaskFill ELSE mat[r][c]]]

\* torch.triu in place of torch.tril
Triu(n) == [i \in 1..n |-> [j \in 1..n |-> IF j >= i THEN 1 ELSE 0]]

\* torch.tril(torch.ones((n, n)))
Tril(n) == [i \in 1..n |-> [j \in 1..n |-> IF j <= i THEN 1 ELSE 0]]

\* m[:, :, :seq_len, :]: the first seq_len rows in place of the last
FirstRows(mat, seq_len) ==
    IF seq_len >= Len(mat) THEN mat ELSE SubSeq(mat, 1, seq_len)

\* m[:, :, -seq_len:, :]: the last seq_len rows (every row when there are fewer)
LastRows(mat, seq_len) ==
    IF seq_len >= Len(mat) \/ seq_len = 0 THEN mat
    ELSE SubSeq(mat, Len(mat) - seq_len + 1, Len(mat))

\* a += b: b is broadcast to a's shape; a size of b that is neither a's nor 1 raises
InPlaceAdd(a, b) ==
    LET ra == Len(a)
        rb == Len(b)
        ca == Len(a[1])
        cb == Len(b[1])
    IN IF (rb = ra \/ rb = 1) /\ (cb = ca \/ cb = 1)
       THEN Return([r \in 1..ra |-> [c \in 1..ca |->
                a[r][c] + b[IF rb = 1 THEN 1 ELSE r][IF cb = 1 THEN 1 ELSE c]]])
       ELSE Raise("RuntimeError")

\* a + b: both are broadcast to the common shape; sizes that differ and are not 1 raise
Add(a, b) ==
    LET ra == Len(a)
        rb == Len(b)
        ca == Len(a[1])
        cb == Len(b[1])
        rows == IF ra = 1 THEN rb ELSE ra
        cols == IF ca = 1 THEN cb ELSE ca
    IN IF (ra = rb \/ ra = 1 \/ rb = 1) /\ (ca = cb \/ ca = 1 \/ cb = 1)
       THEN Return([r \in 1..rows |-> [c \in 1..cols |->
                a[IF ra = 1 THEN 1 ELSE r][IF ca = 1 THEN 1 ELSE c]
                + b[IF rb = 1 THEN 1 ELSE r][IF cb = 1 THEN 1 ELSE c]]])
       ELSE Raise("RuntimeError")

\* a causal term that masks nothing
NoCausalScore(attn_mask, seq_len) ==
    [r \in 1..Min2(seq_len, Len(attn_mask)) |-> [c \in 1..Len(attn_mask) |-> 0]]

\* the causal term of ApplyMask.forward (the body of `if not use_cache`)
CausalScore(attn_mask, seq_len) ==
    LET max_seq_len == Len(attn_mask)
        causal_mask == LastRows(Tril(max_seq_len), seq_len)
        inverted_causal_mask == Invert(causal_mask)
    IN MaskedFill(inverted_causal_mask)

\* ApplyMask.forward: `score` is one head's raw scores (seq_len rows, one
\* column per key); the result is per head, score + mask_score
ApplyMask(use_cache, score, attn_mask, seq_len, num_heads) ==
    LET expanded_mask == ExpandMask(attn_mask, seq_len)
        inverted_mask == Invert(expanded_mask)
        padding_score == MaskedFill(inverted_mask)
        \* mask_score.expand(-1, num_heads, -1, -1), once score + mask_score is known
        Expanded(sum) == IF ~sum.ok THEN sum ELSE Return([h \in 1..num_heads |-> sum.v])
        \* return score + mask_score
        Added(mask_score) ==
            IF ~mask_score.ok THEN mask_score ELSE Expanded(Add(score, mask_score.v))
    IN Added(IF ~use_cache
             THEN InPlaceAdd(padding_score, CausalScore(attn_mask, seq_len))
             ELSE Return(padding_score))

(***************************************************************************)
(* Grouped-query broadcasting.                                             *)
(***************************************************************************)
\* the key/value heads tiled (the whole tensor n_rep times over) in place of
\* each head repeated n_rep times: hidden_states[:, None, :, :, :].expand(...)
TileKeyValue(data, n_rep) ==
    [h \in 1..(Len(data) * n_rep) |-> data[((h - 1) % Len(data)) + 1]]

\* hidden_states[:, :, None, :, :].expand(batch, num_key_value_heads, n_rep, slen, head_dim):
\* per key/value head, n_rep views of it
ExpandRep(data, n_rep) == [g \in 1..Len(data) |-> [i \in 1..n_rep |-> data[g]]]

\* reshape(batch, num_key_value_heads * n_rep, slen, head_dim): the two head
\* axes are merged in row-major order
RECURSIVE MergeHeads(_)
MergeHeads(groups) ==
    IF Len(groups) = 0 THEN <<>>
    ELSE Head(groups) \o MergeHeads(Tail(groups))

\* broadcast_key_value(hidden_states, n_rep)
BroadcastKeyValue(data, n_rep) == MergeHeads(ExpandRep(data, n_rep))

\* SelfAttention.forward, the lines under "Broadcast key and value ...":
\* what attention reads as its keys (and, the same way, as its values)
BroadcastForAttention(num_heads, num_key_value_heads, data) ==
    IF num_heads # num_key_value_heads
    THEN BroadcastKeyValue(data, num_heads \div num_key_value_heads)
    ELSE data

(***************************************************************************)
(* The forward pass.                                                       *)
(***************************************************************************)
\* softmax over a row of biased scores: a key whose bias is below the row's
\* largest by 10000 or more gets weight exp(-10000) = 0 in float32, so the
\* keys that carry weight are those with the row's largest bias
Attended(biasRow) ==
    {c \in 1..Len(biasRow) : biasRow[c] = Max({biasRow[d] : d \in 1..Len(biasRow)})}

\* SelfAttention.forward; x is the normalized hidden state.  The result holds
\* the attention output per row, the two extended caches and score + mask
SelfAttentionForward(sa, layer_idx, n_layers, use_cache, x, position_ids, attn_mask, k_cache, v_cache) ==
    LET seq_len == Len(x)
        nkv == sa.num_key_value_heads
        key == [g \in 1..nkv |-> [r \in 1..seq_len |->
                    KeyEntry(layer_idx, g, x[r], position_ids[r])]]
        value == [g \in 1..nkv |-> [r \in 1..seq_len |->
                    ValueEntry(layer_idx, g, x[r])]]
        k_out == Cat(k_cache, key, FreshId(n_layers, layer_idx, 3))
        v_out == Cat(v_cache, value, FreshId(n_layers, layer_idx, 4))
        keyB == BroadcastForAttention(sa.num_heads, nkv, k_out.data)
        valueB == BroadcastForAttention(sa.num_heads, nkv, v_out.data)
        total == SeqLen(k_out)
        score == [r \in 1..seq_len |-> [c \in 1..total |-> 0]]
        \* the lines from the softmax on, `masked` being what apply_mask gave
        Attend(masked) ==
            IF ~masked.ok THEN masked        \* self.apply_mask(...) raised
            ELSE IF Len(masked.v[1][1]) # total
            THEN Raise("RuntimeError")       \* torch.matmul(prob, value)
            ELSE Return([attn |-> [r \in 1..seq_len |->
                            [pos |-> position_ids[r],
                             scale |-> sa.scale,
                             heads |-> [h \in 1..sa.num_heads |->
                                {[c |-> c, k |-> keyB[h][c], v |-> valueB[h][c]] :
                                    c \in Attended(masked.v[h][r])}]]],
                         k_cache |-> k_out,
                         v_cache |-> v_out,
                         bias |-> masked.v])
    IN IF Len(keyB) # sa.num_heads
       THEN Raise("RuntimeError")            \* torch.matmul(query, key)
       ELSE Attend(ApplyMask(use_cache, score, attn_mask, seq_len, sa.num_heads))

\* TransformerLayer.forward: the residual attention and the residual MLP add
\* to each row what attention gave that row
TransformerLayerForward(layer, layer_idx, n_layers, use_cache, x, position_ids, attn_mask, k_cache, v_cache) ==
    LET \* h = x + h; return h + self.mlp(...), k_out, v_out
        Residual(sa) ==
            IF ~sa.ok THEN sa
            ELSE Return([x |-> [r \in 1..Len(x) |->
                            [tok |-> x[r].tok,
                             att |-> Append(x[r].att,
                                        [input_layernorm |-> layer.input_layernorm,
                                         post_attention_layernorm |->
                                             layer.post_attention_layernorm,
                                         attn |-> sa.v.attn[r]])]],
                         k_cache |-> sa.v.k_cache,
                         v_cache |-> sa.v.v_cache,
                         bias |-> sa.v.bias])
    IN Residual(SelfAttentionForward(layer.self_attn, layer_idx, n_layers, use_cache, x,
                                     position_ids, attn_mask, k_cache, v_cache))

\* a pass that stores the layer's results back: cache[layer_idx]["key"] = k_cache
CacheWrittenBack(cacheObj, layer_idx, k_cache, v_cache) ==
    [cacheObj EXCEPT ![layer_idx] = [key |-> k_cache, value |-> v_cache]]

\* what one pass of the loop of Model.forward leaves in the caller's list
\* `cache`: the pass reads cache[layer_idx], clones what it reads and binds
\* the layer's results to locals; no statement assigns into `cache`
CacheAfterLayer(cacheObj, layer_idx, k_cache, v_cache) == cacheObj

\* the loop of Model.forward from layer_idx on; s holds the locals x,
\* k_caches, v_caches, the caller's list `cache`, and per layer score + mask
RECURSIVE LayerLoop(_, _, _, _, _, _)
LayerLoop(m, use_cache, position_ids, attn_mask, layer_idx, s) ==
    IF layer_idx > Len(m.layers) THEN [ok |-> TRUE, v |-> s, cache |-> s.cache]
    ELSE IF layer_idx > Len(s.cache)
    THEN [ok |-> FALSE, exc |-> "IndexError", cache |-> s.cache]
    ELSE LET n == Len(m.layers)
             k_cache == Clone(s.cache[layer_idx].key, FreshId(n, layer_idx, 1))
             v_cache == Clone(s.cache[layer_idx].value, FreshId(n, layer_idx, 2))
             \* the appends, and the next pass, `out` being what the layer gave
             Rest(out) ==
                IF ~out.ok THEN [ok |-> FALSE, exc |-> out.exc, cache |-> s.cache]
                ELSE LayerLoop(m, use_cache, position_ids, attn_mask, layer_idx + 1,
                        [x |-> out.v.x,
                         k_caches |-> Append(s.k_caches, out.v.k_cache),
                         v_caches |-> Append(s.v_caches, out.v.v_cache),
                         cache |-> CacheAfterLayer(s.cache, layer_idx,
                                                   out.v.k_cache, out.v.v_cache),
                         biases |-> Append(s.biases, out.v.bias)])
         IN Rest(TransformerLayerForward(m.layers[layer_idx], layer_idx, n, use_cache,
                                         s.x, position_ids, attn_mask, k_cache, v_cache))

\* Model.forward
ModelForward(m, use_cache, tokens, position_ids, attn_mask, cacheObj) ==
    LET x == EmbedTokens(tokens)
        \* return self.norm(x), k_caches, v_caches
        Normed(r) ==
            IF ~r.ok THEN r
            ELSE [ok |-> TRUE,
                  hidden |-> [i \in 1..Len(r.v.x) |-> [norm |-> m.norm, x |-> r.v.x[i]]],
                  k_caches |-> r.v.k_caches,
                  v_caches |-> r.v.v_caches,
                  biases |-> r.v.biases,
                  cache |-> r.cache]
    IN Normed(LayerLoop(m, use_cache, position_ids, attn_mask, 1,
                        [x |-> x, k_caches |-> <<>>, v_caches |-> <<>>,
                         cache |-> cacheObj, biases |-> <<>>]))

\* the loop of forward_common with its two appends in the other order
RECURSIVE AppendValueFirst(_, _, _)
AppendValueFirst(return_values, k_caches, v_caches) ==
    IF Len(k_caches) = 0 \/ Len(v_caches) = 0 THEN return_values
    ELSE AppendValueFirst(Append(Append(return_values, Head(v_caches)), Head(k_caches)),
                          Tail(k_caches), Tail(v_caches))

\* for k_cache, v_cache in zip(k_caches, v_caches): two appends per pair
RECURSIVE AppendCaches(_, _, _)
AppendCaches(return_values, k_caches, v_caches) ==
    IF Len(k_caches) = 0 \/ Len(v_caches) = 0 THEN return_values
    ELSE AppendCaches(Append(Append(return_values, Head(k_caches)), Head(v_caches)),
                      Tail(k_caches), Tail(v_caches))

\* DecoderModel.forward_common; `mode` records the use_cache it was called with
ForwardCommon(dm, use_cache, tokens, position_ids_increment, attn_mask, cacheObj) ==
    LET mode == IF use_cache THEN "use_cache" ELSE "no_cache"
        \* logits = self.lm_head(hidden_states) and the list returned
        Values(r) ==
            IF ~r.ok THEN [ok |-> FALSE, exc |-> r.exc, cache |-> r.cache, mode |-> mode]
            ELSE [ok |-> TRUE,
                  return_values |->
                      AppendCaches(<<[lm_head |-> dm.lm_head, x |-> r.hidden]>>,
                                   r.k_caches, r.v_caches),
                  biases |-> r.biases,
                  cache |-> r.cache,
                  mode |-> mode]
    IN Values(ModelForward(dm.model, use_cache, tokens, position_ids_increment,
                           attn_mask, cacheObj))

\* DecoderModel.forward_no_cache
ForwardNoCache(dm, tokens, position_ids, attn_mask, cacheObj) ==
    ForwardCommon(dm, FALSE, tokens, position_ids, attn_mask, cacheObj)

\* DecoderModel.forward_use_cache
ForwardUseCache(dm, tokens_increment, position_ids_increment, attn_mask, cacheObj) ==
    ForwardCommon(dm, TRUE, tokens_increment, position_ids_increment, attn_mask, cacheObj)

\* the two branches of set_use_cache exchanged
BindForwardSwapped(use_cache) ==
    IF use_cache THEN "forward_no_cache" ELSE "forward_use_cache"

\* what `self.forward = ... if use_cache else ...` binds
BindForward(use_cache) ==
    IF use_cache THEN "forward_use_cache" ELSE "forward_no_cache"

\* calling the instance runs what its attribute `forward` is bound to; until
\* set_use_cache binds it, that is torch.nn.Module's forward, which raises
CallForward(binding, dm, tokens, position_ids, attn_mask, cacheObj) ==
    IF binding = "forward_use_cache"
    THEN ForwardUseCache(dm, tokens, position_ids, attn_mask, cacheObj)
    ELSE IF binding = "forward_no_cache"
    THEN ForwardNoCache(dm, tokens, position_ids, attn_mask, cacheObj)
    ELSE [ok |-> FALSE, exc |-> "NotImplementedError", cache |-> cacheObj,
          mode |-> "unimplemented"]

(***************************************************************************)
(* The inputs the runs draw from.                                          *)
(***************************************************************************)
\* epsilon, as its negated decimal exponent (1e-5, 1e-6)
EpsValues == {5, 6}

ScaleTypes == {"HeadDim", "SquareRootHeadDim", "Linear"}

NormalizationTypes == {"layer_norm", "rms", "batch_norm"}

\* <<num_heads, num_key_value_heads>>, the second dividing the first
HeadPairs == {<<1, 1>>, <<2, 1>>, <<2, 2>>}

\* the arguments of DecoderModel(...) that the model keeps
AllArgs ==
    {[n_layers |-> n, num_heads |-> hp[1], num_key_value_heads |-> hp[2],
      scale_type |-> sc, normalization_type |-> nt, epsilon |-> e] :
        n \in 0..MaxLayers, hp \in HeadPairs, sc \in ScaleTypes,
        nt \in NormalizationTypes, e \in EpsValues}

\* the arguments the forward-pass runs construct their model with
MainArgs ==
    {a \in AllArgs : /\ a.epsilon = 5
                     /\ a.scale_type \in {"SquareRootHeadDim", "Linear"}
                     /\ a.normalization_type \in {"rms", "batch_norm"}
                     /\ a.num_heads = 2
                     /\ a.num_key_value_heads = 1}

\* the token ids the calls are given
Tokens == {0, 1}

\* the numbers of tokens one call is given
SeqLens == {1, 2}

\* the lengths of the cache the caller starts with
InitLens == {0, 1}

\* a hidden row the caller's initial cache was computed from
OldRow(j) == [tok |-> 0 - j, att |-> <<>>]

\* the cache the caller starts with: per layer a key and a value tensor of
\* `len` cached positions
InitialCache(a, len) ==
    [l \in 1..a.n_layers |->
        [key |-> [id |-> 2 * l - 1,
                  data |-> [g \in 1..a.num_key_value_heads |->
                              [j \in 1..len |-> KeyEntry(l, g, OldRow(j), j - 1)]]],
         value |-> [id |-> 2 * l,
                    data |-> [g \in 1..a.num_key_value_heads |->
                              [j \in 1..len |-> ValueEntry(l, g, OldRow(j))]]]]]

\* an all-ones padding mask over n positions
Ones(n) == [c \in 1..n |-> 1]

\* the position ids of seq_len new tokens after `len` cached ones
PositionIds(len, seq_len) == [r \in 1..seq_len |-> len + r - 1]

\* padding masks for a call whose keys are `total` positions: every mask of
\* that length, the masks of length 1, and one that is a position too long
MaskInputs(total) ==
    SeqsOfLen({0, 1}, total) \cup SeqsOfLen({0, 1}, 1) \cup {Ones(total + 1)}

NoCall == [status |-> "none"]

NoKV == [num_heads |-> 0, num_key_value_heads |-> 0, data |-> <<>>]

(***************************************************************************)
(* The driver script, llm.py: what it names and where it starts.           *)
(***************************************************************************)
\* the choices of --model_type
ModelTypes == {"llama-2-7b-chat", "mistral-7b-chat"}

\* repo_id = {...}[args.model_type]
RepoId(model_type) ==
    IF model_type = "llama-2-7b-chat" THEN "meta-llama/Llama-2-7b-chat-hf"
    ELSE "mistralai/Mistral-7B-Instruct-v0.1"

\* model_name = repo_id.replace("/", "_")
ModelName(repo_id) ==
    IF repo_id = "meta-llama/Llama-2-7b-chat-hf" THEN "meta-llama_Llama-2-7b-chat-hf"
    ELSE "mistralai_Mistral-7B-Instruct-v0.1"

ModelNames == {ModelName(RepoId(t)) : t \in ModelTypes}

\* the files optimize copies into optimized_model_dir / model_name
OnnxFile == "model.onnx"
WeightsFile == "model.onnx.data"
TokenizerFile == "tokenizer.json"
TokenizerConfigFile == "tokenizer_config.json"

\* a path that does not exist
NoDir == [exists |-> FALSE, files |-> {}]

\* the parsed arguments: the flags and the option the dispatch reads
Argvs == [optimize : BOOLEAN, interactive : BOOLEAN, model_type : ModelTypes]

NoArgv == [optimize |-> FALSE, interactive |-> FALSE, model_type |-> "none"]

\* before the first invocation: nothing under models/optimized
DriverInit ==
    /\ argv = NoArgv
    /\ pc = "idle"
    /\ fs = [n \in ModelNames |-> NoDir]
    /\ trace = <<>>
    /\ runs = 0

(***************************************************************************)
(* The state machine: construction, set_use_cache, forward, and the caller *)
(* threading a returned cache into its next call.                          *)
(***************************************************************************)
Init ==
    /\ model = [status |-> "none"]
    /\ forward = "_forward_unimplemented"
    /\ cache = <<>>
    /\ initLen = 0
    /\ ret = <<>>
    /\ call = NoCall
    /\ lastSet = "unset"
    /\ fed = 0
    /\ stream = [pure |-> TRUE, tokens |-> <<>>]
    /\ kvIn = NoKV
    /\ kvOut = [done |-> FALSE, data |-> <<>>]
    /\ DriverInit

\* DecoderModel(...), and the caller making its cache of `len` positions
Construct(a, len) ==
    /\ model.status = "none"
    /\ LET Constructed(r) ==
              /\ model' = IF r.ok THEN [status |-> "ok", args |-> a, obj |-> r.v]
                          ELSE [status |-> r.exc, args |-> a]
              /\ cache' = IF r.ok THEN InitialCache(a, len) ELSE <<>>
              /\ initLen' = IF r.ok THEN len ELSE 0
       IN Constructed(DecoderModelInit(a))
    /\ UNCHANGED <<forward, ret, call, lastSet, fed, stream, kvIn, kvOut, driverVars>>

\* DecoderModel.set_use_cache(use_cache), called between two calls of forward
SetUseCache(use_cache) ==
    /\ model.status = "ok"
    /\ call.status = "none"
    /\ forward' = BindForward(use_cache)
    /\ lastSet' = IF use_cache THEN "True" ELSE "False"
    /\ UNCHANGED <<model, cache, initLen, ret, call, fed, stream, kvIn, kvOut, driverVars>>

\* the cached positions the caller's cache holds
CurLen == initLen + fed

\* model(tokens, position_ids, attn_mask, cache): the call of forward, made
\* once the caller has dealt with what the call before returned
Forward(tokens, position_ids, attn_mask) ==
    /\ model.status = "ok"
    /\ call.status = "none"
    /\ CurLen + Len(tokens) <= MaxTotal
    /\ LET Returned(r) ==
              /\ ret' = IF r.ok THEN r.return_values ELSE <<>>
              /\ cache' = r.cache
              /\ call' = IF r.ok
                         THEN [status |-> "ok", mode |-> r.mode,
                               tokens |-> tokens, position_ids |-> position_ids,
                               attn_mask |-> attn_mask, cache_in |-> cache,
                               biases |-> r.biases]
                         ELSE [status |-> r.exc, mode |-> r.mode, cache_in |-> cache]
       IN Returned(CallForward(forward, model.obj, tokens, position_ids, attn_mask, cache))
    /\ UNCHANGED <<model, forward, initLen, lastSet, fed, stream, kvIn, kvOut, driverVars>>

\* a call in use-cache mode that fed one token, at the position after the
\* cached ones, under an all-ones mask over the whole length, to a cache that
\* started empty
OneTokenStep(c) ==
    /\ initLen = 0
    /\ c.mode = "use_cache"
    /\ Len(c.tokens) = 1
    /\ c.position_ids = <<fed>>
    /\ c.attn_mask = Ones(fed + 1)

\* the caller takes the returned caches as its cache for the next call
ThreadCache ==
    /\ call.status = "ok"
    /\ cache' = [l \in 1..Len(cache) |->
                    [key |-> [id |-> 2 * l - 1, data |-> ret[2 * l].data],
                     value |-> [id |-> 2 * l, data |-> ret[2 * l + 1].data]]]
    /\ fed' = fed + Len(call.tokens)
    /\ stream' = IF OneTokenStep(call) /\ stream.pure
                 THEN [pure |-> TRUE, tokens |-> stream.tokens \o call.tokens]
                 ELSE [pure |-> FALSE, tokens |-> <<>>]
    /\ ret' = <<>>
    /\ call' = NoCall
    /\ UNCHANGED <<model, forward, initLen, lastSet, kvIn, kvOut, driverVars>>

\* the caller drops what the call returned (or its exception) and keeps its cache
DropResult ==
    /\ call.status # "none"
    /\ ret' = <<>>
    /\ call' = NoCall
    /\ UNCHANGED <<model, forward, cache, initLen, lastSet, fed, stream, kvIn, kvOut, driverVars>>

Next ==
    \/ \E a \in MainArgs, len \in InitLens : Construct(a, len)
    \/ \E use_cache \in BOOLEAN : SetUseCache(use_cache)
    \/ \E seq_len \in SeqLens :
         \E tokens \in SeqsOfLen(Tokens, seq_len),
            attn_mask \in MaskInputs(CurLen + seq_len) :
              Forward(tokens, PositionIds(CurLen, seq_len), attn_mask)
    \/ ThreadCache
    \/ DropResult

Spec == Init /\ [][Next]_vars

(***************************************************************************)
(* Construction alone, over every combination of arguments.                *)
(***************************************************************************)
NextConstruct == \E a \in AllArgs, len \in InitLens : Construct(a, len)

SpecConstruct == Init /\ [][NextConstruct]_vars

(***************************************************************************)
(* Grouped-query broadcasting alone: SelfAttention.forward's broadcasting  *)
(* lines applied to a key/value tensor, over head counts and contents.     *)
(***************************************************************************)
\* what one key/value entry holds in these runs
KVVals == {0, 1}

\* the tensors and head counts of these runs: each head holds two entries
KVInputs ==
    {[num_heads |-> nh, num_key_value_heads |-> nkv, data |-> d] :
        nkv \in 1..MaxKVHeads, nh \in 1..(MaxKVHeads * MaxRep),
        d \in UNION {SeqsOfLen(SeqsOfLen(KVVals, 2), k) : k \in 1..MaxKVHeads}}

InitBroadcast ==
    /\ model = [status |-> "none"]
    /\ forward = "_forward_unimplemented"
    /\ cache = <<>>
    /\ initLen = 0
    /\ ret = <<>>
    /\ call = NoCall
    /\ lastSet = "unset"
    /\ fed = 0
    /\ stream = [pure |-> TRUE, tokens |-> <<>>]
    /\ kvIn \in {i \in KVInputs : /\ Len(i.data) = i.num_key_value_heads
                                  /\ i.num_heads % i.num_key_value_heads = 0
                                  /\ i.num_heads <= i.num_key_value_heads * MaxRep}
    /\ kvOut = [done |-> FALSE, data |-> <<>>]
    /\ DriverInit

\* the broadcasting lines of SelfAttention.forward
Broadcast ==
    /\ ~kvOut.done
    /\ kvOut' = [done |-> TRUE,
                 data |-> BroadcastForAttention(kvIn.num_heads, kvIn.num_key_value_heads,
                                                kvIn.data)]
    /\ UNCHANGED <<model, forward, cache, initLen, ret, call, lastSet, fed, stream, kvIn, driverVars>>

NextBroadcast == Broadcast

SpecBroadcast == InitBroadcast /\ [][NextBroadcast]_vars

(***************************************************************************)
(* The driver script, llm.py, one invocation after another over the same   *)
(* models/optimized directory.  An invocation is followed line by line:    *)
(* pc names the step it is about to take.  The optimize step calls         *)
(* collaborators that can raise (the checkpoint loader, olive_run, the     *)
(* asserts on the footprints, hf_hub_download, shutil.copyfile) and the    *)
(* process can be interrupted: nothing in optimize or in __main__ catches  *)
(* an exception, so any of its steps can instead end the invocation.       *)
(***************************************************************************)
\* model_name of the current invocation
Name == ModelName(RepoId(argv.model_type))

\* what the current invocation has done
Did(e) == \E i \in DOMAIN trace : trace[i] = e

\* when it did it
At(e) == CHOOSE i \in DOMAIN trace : trace[i] = e

\* shutil.copyfile(src, dst_dir / file): the file is there afterwards
CopyFile(dir, file) == [dir EXCEPT !.files = @ \cup {file}]

\* the steps of optimize, in order
OptimizePcs ==
    {"olive_run", "makedirs", "copy_model", "copy_weights", "copy_tokenizer",
     "copy_tokenizer_config"}

\* an optimize copying only when the flag asks for it
RunsOptimizeOnFlagOnly(optimize, exists) == optimize

\* args.optimize or not (optimized_model_dir / model_name).exists()
RunsOptimize(optimize, exists) == optimize \/ ~exists

\* python llm.py ...: the arguments are parsed, the paths and names computed
Invoke(a) ==
    /\ pc \in {"idle", "done", "failed"}
    /\ runs < MaxRuns
    /\ argv' = a
    /\ pc' = "main"
    /\ trace' = <<>>
    /\ runs' = runs + 1
    /\ UNCHANGED <<fs, modelVars>>

\* if args.optimize or not (...).exists(): optimize(...) is entered, or not
CheckOptimize ==
    /\ pc = "main"
    /\ LET exists == fs[Name].exists
           seen == IF exists THEN "exists" ELSE "missing"
       IN IF RunsOptimize(argv.optimize, exists)
          THEN /\ trace' = <<seen, "optimize">>
               /\ pc' = "olive_run"
          ELSE /\ trace' = <<seen>>
               /\ pc' = "dispatch"
    /\ UNCHANGED <<argv, fs, runs, modelVars>>

\* set_config_parameters, olive_run and the reading of the footprints
OliveRun ==
    /\ pc = "olive_run"
    /\ pc' = "makedirs"
    /\ UNCHANGED <<argv, fs, trace, runs, modelVars>>

\* os.makedirs(os.path.dirname(dst_path), exist_ok=True)
MakeDirs ==
    /\ pc = "makedirs"
    /\ fs' = [fs EXCEPT ![Name].exists = TRUE]
    /\ pc' = "copy_model"
    /\ UNCHANGED <<argv, trace, runs, modelVars>>

\* shutil.copyfile(src_path, dst_path)
CopyModel ==
    /\ pc = "copy_model"
    /\ fs' = [fs EXCEPT ![Name] = CopyFile(@, OnnxFile)]
    /\ pc' = "copy_weights"
    /\ UNCHANGED <<argv, trace, runs, modelVars>>

\* if src_weights_path.is_file(): shutil.copyfile(src_weights_path, dst_weights_path)
CopyWeights ==
    /\ pc = "copy_weights"
    /\ \E is_file \in BOOLEAN :
          fs' = [fs EXCEPT ![Name] = IF is_file THEN CopyFile(@, WeightsFile) ELSE @]
    /\ pc' = "copy_tokenizer"
    /\ UNCHANGED <<argv, trace, runs, modelVars>>

\* hf_hub_download(..., "tokenizer.json") and its copy
CopyTokenizer ==
    /\ pc = "copy_tokenizer"
    /\ fs' = [fs EXCEPT ![Name] = CopyFile(@, TokenizerFile)]
    /\ pc' = "copy_tokenizer_config"
    /\ UNCHANGED <<argv, trace, runs, modelVars>>

\* hf_hub_download(..., "tokenizer_config.json") and its copy; optimize returns
CopyTokenizerConfig ==
    /\ pc = "copy_tokenizer_config"
    /\ fs' = [fs EXCEPT ![Name] = CopyFile(@, TokenizerConfigFile)]
    /\ trace' = Append(trace, "optimize_done")
    /\ pc' = "dispatch"
    /\ UNCHANGED <<argv, runs, modelVars>>

\* a step of optimize raises, or the process is interrupted there: the
\* invocation ends, and what was written stays
OptimizeFails ==
    /\ pc \in OptimizePcs
    /\ pc' = "failed"
    /\ UNCHANGED <<argv, fs, trace, runs, modelVars>>

\* if not args.optimize: launch_chat_app(...) or run_llm_io_binding(...)
Dispatch ==
    /\ pc = "dispatch"
    /\ IF argv.optimize
       THEN /\ pc' = "done"
            /\ trace' = trace
       ELSE IF argv.interactive
       THEN /\ pc' = "chat"
            /\ trace' = Append(trace, "chat")
       ELSE /\ pc' = "benchmark"
            /\ trace' = Append(trace, "benchmark")
    /\ UNCHANGED <<argv, fs, runs, modelVars>>

\* the chat session or the benchmark run returns, and the script ends
Finish ==
    /\ pc \in {"chat", "benchmark"}
    /\ pc' = "done"
    /\ UNCHANGED <<argv, fs, trace, runs, modelVars>>

NextDriver ==
    \/ \E a \in Argvs : Invoke(a)
    \/ CheckOptimize
    \/ OliveRun
    \/ MakeDirs
    \/ CopyModel
    \/ CopyWeights
    \/ CopyTokenizer
    \/ CopyTokenizerConfig
    \/ OptimizeFails
    \/ Dispatch
    \/ Finish

SpecDriver == Init /\ [][NextDriver]_vars

(***************************************************************************)
(* What the claims read off a state.                                       *)
(***************************************************************************)
\* the layers of the constructed model
NLayers == Len(model.obj.model.layers)

\* the cached positions the last call of forward was given
CallCached == initLen + fed

\* the keys the last call of forward attended over: cached plus new
CallTotal == CallCached + Len(call.tokens)

\* every head of a cache tensor holds n positions
HasLength(t, n) == \A g \in 1..Len(t.data) : Len(t.data[g]) = n

\* the tensor objects of the cache the last call was given
InputIds ==
    {call.cache_in[l].key.id : l \in 1..Len(call.cache_in)}
        \cup {call.cache_in[l].value.id : l \in 1..Len(call.cache_in)}

\* the bias the padding mask gives key column c
PaddingBias(attn_mask, c) == IF attn_mask[c] = 1 THEN 0 ELSE 0 - MaskFill

\* the bias the causal mask gives key column c for query row r of seq_len,
\* over total key columns
CausalBias(r, c, seq_len, total) ==
    IF c <= r + (total - seq_len) THEN 0 ELSE 0 - MaskFill

(***************************************************************************)
(* C1.  Cache-extension length invariant: starting from a cache of         *)
(* sequence length L (initLen) and threading the returned cache into the   *)
(* next call, after calls that together supplied N new positions (fed)     *)
(* the key cache and the value cache of every layer have sequence length   *)
(* exactly L + N, the same for all layers; and what a call given seq_len   *)
(* tokens returns has length L + N + seq_len.                              *)
(***************************************************************************)
CacheLengthInvariant ==
    model.status = "ok" =>
        /\ \A l \in 1..Len(cache) :
              /\ HasLength(cache[l].key, initLen + fed)
              /\ HasLength(cache[l].value, initLen + fed)
        /\ call.status = "ok" =>
              \A l \in 1..NLayers :
                 /\ HasLength(ret[2 * l], initLen + fed + Len(call.tokens))
                 /\ HasLength(ret[2 * l + 1], initLen + fed + Len(call.tokens))

\* a two-layer model whose cache started with one position, was threaded
\* through one call, and is extended by a second call in use-cache mode
CacheLengthWitness ==
    /\ model.status = "ok"
    /\ NLayers = 2
    /\ initLen = 1
    /\ fed = 1
    /\ call.status = "ok"
    /\ call.mode = "use_cache"
    /\ HasLength(ret[4], 3)

(***************************************************************************)
(* C2.  A forward call, in either mode and also when it raises, leaves the *)
(* caller's cache as it was: every layer's key and value tensor is the     *)
(* same object with the same length and contents; and the extended caches  *)
(* it returns are tensor objects other than the ones it was given.         *)
(***************************************************************************)
InputCacheUnchanged ==
    call.status # "none" =>
        /\ cache = call.cache_in
        /\ call.status = "ok" =>
              \A i \in 2..Len(ret) : ret[i].id \notin InputIds

\* a call on a non-empty cache that returned caches longer than its inputs
InputCacheUnchangedWitness ==
    /\ call.status = "ok"
    /\ NLayers = 2
    /\ CallCached >= 1
    /\ HasLength(ret[2], CallCached + Len(call.tokens))
    /\ HasLength(cache[1].key, CallCached)

(***************************************************************************)
(* C3.  In no-cache mode with an all-ones padding mask and an empty cache  *)
(* attention is strictly causal: in every layer and head the bias of query *)
(* row i and key column j is -10000 for j > i and 0 for j <= i, and row i  *)
(* of the output is the same for every token sequence that agrees with the *)
(* given one on positions 1..i.                                            *)
(***************************************************************************)
NoCacheCausal ==
    (/\ call.status = "ok"
     /\ call.mode = "no_cache"
     /\ CallCached = 0
     /\ call.attn_mask = Ones(Len(call.tokens))) =>
        LET seq_len == Len(call.tokens)
        IN /\ \A l \in 1..NLayers : \A h \in 1..Len(call.biases[l]) :
                \A i \in 1..seq_len : \A j \in 1..seq_len :
                   call.biases[l][h][i][j] = IF j > i THEN 0 - MaskFill ELSE 0
           /\ \A alt \in SeqsOfLen(Tokens, seq_len) : \A i \in 1..seq_len :
                (\A k \in 1..i : alt[k] = call.tokens[k]) =>
                   LET other == ForwardNoCache(model.obj, alt, call.position_ids,
                                               call.attn_mask, call.cache_in)
                   IN other.ok /\ other.return_values[1].x[i] = ret[1].x[i]

\* a two-layer model given two tokens at once
NoCacheCausalWitness ==
    /\ call.status = "ok"
    /\ call.mode = "no_cache"
    /\ CallCached = 0
    /\ NLayers = 2
    /\ Len(call.tokens) = 2
    /\ call.attn_mask = Ones(2)

(***************************************************************************)
(* C4.  Mode equivalence: when a prompt of K tokens has been fed one token *)
(* per use-cache call, at positions 0..K-1, under all-ones masks, from an  *)
(* empty cache, each returned cache threaded into the next call, the K-th  *)
(* call returns what one no-cache call on the whole prompt returns for the *)
(* final position: the same logits row, the same caches in every layer,    *)
(* and in every layer and head the same attended key positions.            *)
(***************************************************************************)
ModeEquivalence ==
    (/\ call.status = "ok"
     /\ stream.pure
     /\ OneTokenStep(call)) =>
        LET prompt == stream.tokens \o call.tokens
            K == Len(prompt)
            whole == ForwardNoCache(model.obj, prompt, PositionIds(0, K), Ones(K),
                                    InitialCache(model.args, 0))
        IN /\ whole.ok
           /\ ret[1].x[1] = whole.return_values[1].x[K]
           /\ \A i \in 2..Len(ret) : ret[i].data = whole.return_values[i].data
           /\ Len(ret) = Len(whole.return_values)
           /\ \A l \in 1..NLayers : \A h \in 1..Len(call.biases[l]) :
                 Attended(call.biases[l][h][1]) = Attended(whole.biases[l][h][K])

\* the third token of a prompt fed to a two-layer model
ModeEquivalenceWitness ==
    /\ call.status = "ok"
    /\ stream.pure
    /\ OneTokenStep(call)
    /\ NLayers = 2
    /\ Len(stream.tokens) = 2
    /\ HasLength(ret[4], 3)

(***************************************************************************)
(* C5.  Construction fails, whatever the other arguments are (the layer    *)
(* count included), when the normalization kind is not "layer_norm" or     *)
(* "rms" or the score-scale kind is not "HeadDim" or "SquareRootHeadDim":  *)
(* no instance is produced then.                                           *)
(***************************************************************************)
ConstructionFailsFast ==
    (/\ model.status # "none"
     /\ \/ model.args.normalization_type \notin {"layer_norm", "rms"}
        \/ model.args.scale_type \notin {"HeadDim", "SquareRootHeadDim"}) =>
        model.status # "ok"

(***************************************************************************)
(* C6.  Every forward call in use-cache mode appends exactly one position  *)
(* to each layer's cache, and attends from no query to a key position      *)
(* later than the query's own.                                             *)
(***************************************************************************)
UseCacheOnePosition ==
    (call.status = "ok" /\ call.mode = "use_cache") =>
        /\ \A l \in 1..NLayers :
              /\ HasLength(ret[2 * l], CallCached + 1)
              /\ HasLength(ret[2 * l + 1], CallCached + 1)
        /\ \A l \in 1..NLayers : \A h \in 1..Len(call.biases[l]) :
              \A r \in 1..Len(call.tokens) :
                 \A c \in Attended(call.biases[l][h][r]) : c <= CallCached + r

(***************************************************************************)
(* C7, as claimed.  Every forward call runs in one of the two modes, the   *)
(* one the most recent set_use_cache call selected.                        *)
(***************************************************************************)
ForwardAlwaysInAMode ==
    call.status # "none" =>
        /\ call.mode \in {"no_cache", "use_cache"}
        /\ lastSet = "True" => call.mode = "use_cache"
        /\ lastSet = "False" => call.mode = "no_cache"

(***************************************************************************)
(* C7, amended.  Every forward call made after a set_use_cache call runs   *)
(* in the mode the most recent set_use_cache call selected (use-cache for  *)
(* a true flag, no-cache for a false one), whatever its inputs are; a      *)
(* forward call made before any set_use_cache call raises                  *)
(* NotImplementedError, runs in neither mode and returns nothing.          *)
(***************************************************************************)
ForwardModeIsLastSet ==
    call.status # "none" =>
        /\ lastSet = "True" => call.mode = "use_cache"
        /\ lastSet = "False" => call.mode = "no_cache"
        /\ lastSet = "unset" =>
              /\ call.mode = "unimplemented"
              /\ call.status = "NotImplementedError"
              /\ ret = <<>>

\* a single token given, with a cache of earlier positions, to a model
\* switched to no-cache mode: the inputs of a use-cache step, run without it
ForwardModeWitness ==
    /\ call.status = "ok"
    /\ lastSet = "False"
    /\ call.mode = "no_cache"
    /\ Len(call.tokens) = 1
    /\ CallCached >= 1
    /\ NLayers >= 1

(***************************************************************************)
(* C8.  The forward pass returns 1 + 2*n_layers values: the logits, one    *)
(* row per token, then for each layer l = 1..n_layers, in ascending order, *)
(* its extended key cache (at place 2l of the list counted from 1) and its *)
(* extended value cache (at place 2l+1); the caches of layer l are the     *)
(* ones computed by layer l from entry l of the cache given.               *)
(***************************************************************************)
ReturnLayout ==
    call.status = "ok" =>
        /\ Len(ret) = 1 + 2 * NLayers
        /\ "lm_head" \in DOMAIN ret[1]
        /\ Len(ret[1].x) = Len(call.tokens)
        /\ \A l \in 1..NLayers :
              LET k == ret[2 * l]
                  v == ret[2 * l + 1]
              IN /\ Len(k.data) = Len(call.cache_in[l].key.data)
                 /\ Len(v.data) = Len(call.cache_in[l].value.data)
                 /\ \A g \in 1..Len(k.data) :
                       /\ SubSeq(k.data[g], 1, CallCached) = call.cache_in[l].key.data[g]
                       /\ \A j \in 1..Len(k.data[g]) :
                             "pos" \in DOMAIN k.data[g][j] /\ k.data[g][j].layer = l
                 /\ \A g \in 1..Len(v.data) :
                       /\ SubSeq(v.data[g], 1, CallCached) = call.cache_in[l].value.data[g]
                       /\ \A j \in 1..Len(v.data[g]) :
                             "pos" \notin DOMAIN v.data[g][j] /\ v.data[g][j].layer = l

\* a two-layer model, called with a cache that holds a position
ReturnLayoutWitness ==
    /\ call.status = "ok"
    /\ NLayers = 2
    /\ CallCached = 1
    /\ Len(ret) = 5
    /\ Len(call.tokens) = 2

(***************************************************************************)
(* C9.  Grouped-query broadcasting with n_rep = num_heads /                *)
(* num_key_value_heads gives attention exactly num_heads heads, head h     *)
(* (counted from 0) being key/value head floor(h / n_rep); when num_heads  *)
(* equals num_key_value_heads the tensor is passed as it is, which is also *)
(* what broadcasting it with n_rep = 1 gives.                              *)
(***************************************************************************)
BroadcastMapping ==
    kvOut.done =>
        LET n_rep == kvIn.num_heads \div kvIn.num_key_value_heads
        IN /\ Len(kvOut.data) = kvIn.num_heads
           /\ \A h \in 0..(kvIn.num_heads - 1) :
                 kvOut.data[h + 1] = kvIn.data[(h \div n_rep) + 1]
           /\ kvIn.num_heads = kvIn.num_key_value_heads =>
                 /\ kvOut.data = kvIn.data
                 /\ BroadcastKeyValue(kvIn.data, 1) = kvIn.data

\* two key/value heads that differ, each repeated twice
BroadcastMappingWitness ==
    /\ kvOut.done
    /\ kvIn.num_key_value_heads = 2
    /\ kvIn.num_heads = 4
    /\ kvIn.data[1] # kvIn.data[2]
    /\ kvOut.data[2] = kvIn.data[1]
    /\ kvOut.data[3] = kvIn.data[2]

(***************************************************************************)
(* C10.  With a padding mask over the total_len key columns, the additive  *)
(* bias at query row r (of seq_len) and key column c (of total_len) is, in *)
(* use-cache mode, 0 where the padding mask keeps c and -10000 where it    *)
(* does not; in no-cache mode, that padding bias plus a causal bias of 0   *)
(* for c <= r + (total_len - seq_len) and -10000 otherwise.  It is the     *)
(* same for every head, and 0 exactly when every mask that applies keeps   *)
(* the key.                                                                *)
(***************************************************************************)
MaskBias ==
    (call.status = "ok" /\ Len(call.attn_mask) = CallTotal) =>
        LET seq_len == Len(call.tokens)
            causal == call.mode = "no_cache"
        IN \A l \in 1..NLayers :
              /\ Len(call.biases[l]) = model.args.num_heads
              /\ \A h \in 1..Len(call.biases[l]) :
                    /\ call.biases[l][h] = call.biases[l][1]
                    /\ Len(call.biases[l][h]) = seq_len
                    /\ \A r \in 1..seq_len :
                          /\ Len(call.biases[l][h][r]) = CallTotal
                          /\ \A c \in 1..CallTotal :
                                LET kept == /\ call.attn_mask[c] = 1
                                            /\ causal => c <= r + (CallTotal - seq_len)
                                IN /\ call.biases[l][h][r][c] =
                                         PaddingBias(call.attn_mask, c)
                                         + (IF causal
                                            THEN CausalBias(r, c, seq_len, CallTotal)
                                            ELSE 0)
                                   /\ call.biases[l][h][r][c] = 0 <=> kept

\* a no-cache call of two tokens on a cache of one position, the mask
\* dropping the cached one: biases 0, -10000 and -20000 all occur
MaskBiasWitness ==
    /\ call.status = "ok"
    /\ call.mode = "no_cache"
    /\ NLayers >= 1
    /\ CallCached = 1
    /\ Len(call.tokens) = 2
    /\ call.attn_mask = <<0, 1, 1>>
    /\ call.biases[1][2][1] = <<0 - MaskFill, 0, 0 - MaskFill>>
    /\ call.biases[1][2][2] = <<0 - MaskFill, 0, 0>>

(***************************************************************************)
(* C11.  Driver dispatch.  In every invocation that is past line 194: the  *)
(* optimize step was entered if and only if --optimize was given or the    *)
(* directory of the chosen model did not exist, and it was entered before  *)
(* anything else; with --optimize neither the chat session nor the         *)
(* benchmark run is started; without --optimize the chat session is        *)
(* started only with --interactive, the benchmark run only without it,     *)
(* never both, exactly one of them once the dispatch has been made, and    *)
(* neither before the optimize step of the invocation, if it was entered,  *)
(* has returned.  (An optimize step that raises ends the invocation: the   *)
(* dispatch is then never made.)                                           *)
(***************************************************************************)
DriverDispatch ==
    pc \notin {"idle", "main"} =>
        /\ Did("optimize") <=> (argv.optimize \/ trace[1] = "missing")
        /\ Did("optimize") => At("optimize") = 2
        /\ argv.optimize => ~Did("chat") /\ ~Did("benchmark")
        /\ Did("chat") => argv.interactive
        /\ Did("benchmark") => ~argv.interactive
        /\ ~(Did("chat") /\ Did("benchmark"))
        /\ (~argv.optimize /\ pc \in {"chat", "benchmark", "done"}) =>
              /\ Did("chat") <=> argv.interactive
              /\ Did("benchmark") <=> ~argv.interactive
        /\ \A e \in {"chat", "benchmark"} :
              (Did(e) /\ Did("optimize")) =>
                  /\ Did("optimize_done")
                  /\ At("optimize") < At("optimize_done")
                  /\ At("optimize_done") < At(e)
        /\ (pc \in {"chat", "benchmark"}) => Did(pc)
        /\ (pc \in OptimizePcs) => (Did("optimize") /\ ~Did("optimize_done"))

\* an invocation without --optimize found no directory, optimized, and then
\* started the benchmark run; an earlier one had been given --optimize alone
DriverDispatchWitness ==
    /\ runs >= 2
    /\ ~argv.optimize
    /\ ~argv.interactive
    /\ pc = "benchmark"
    /\ trace = <<"missing", "optimize", "optimize_done", "benchmark">>

(***************************************************************************)
(* C12.  Whenever an invocation skipped the optimize step because the      *)
(* directory of its model existed, that directory holds the optimized ONNX *)
(* model, tokenizer.json and tokenizer_config.json.  The driver does not   *)
(* keep this: os.makedirs creates the directory before any file is copied  *)
(* into it, and an optimize step that ends between line 130 and line 147   *)
(* leaves it behind for line 194 of the next invocation to accept.         *)
(***************************************************************************)
\* the files a directory accepted as optimized is read for
CompleteArtifacts == {OnnxFile, TokenizerFile, TokenizerConfigFile}

SkippedOptimizeIsComplete ==
    (pc \notin {"idle", "main"} /\ trace[1] = "exists" /\ ~Did("optimize")) =>
        CompleteArtifacts \subseteq fs[Name].files

(***************************************************************************)
(* C13.  Every normalization instance of a constructed model, the two of   *)
(* each layer and the final one, is of the configured kind and keeps the   *)
(* configured epsilon.  The code does not keep this: Model.__init__ builds *)
(* the final normalization with eps=1e-5 whatever epsilon it was given.    *)
(***************************************************************************)
\* the class normalization_type names
NormKind(normalization_type) ==
    IF normalization_type = "rms" THEN "RMSNorm" ELSE "LayerNorm"

\* the normalization instances of the constructed model
NormInstances ==
    {model.obj.model.norm}
        \cup {model.obj.model.layers[i].input_layernorm :
                 i \in DOMAIN model.obj.model.layers}
        \cup {model.obj.model.layers[i].post_attention_layernorm :
                 i \in DOMAIN model.obj.model.layers}

NormsAsConfigured ==
    model.status = "ok" =>
        \A n \in NormInstances :
            /\ n.kind = NormKind(model.args.normalization_type)
            /\ n.eps = model.args.epsilon

====
